---------------------------- MODULE Spec2Model ----------------------------
(***************************************************************************)
(* A model of the two infographic generators of OmniBazaar/Documents:      *)
(*   src/create_features_infographic.py  (script "features")               *)
(*   src/create_infographic.py           (script "yield")                  *)
(*                                                                         *)
(* The module holds one specification per unit of the code:                *)
(*   SpecHex     hex_to_rgb applied to bounded colour strings              *)
(*   SpecRect    draw_rounded_rect applied to bounded boxes and radii      *)
(*   SpecGrad    draw_gradient_rect applied to bounded boxes on a canvas   *)
(*   SpecLerp    draw_gradient_rect on one column of up to LerpMaxH rows   *)
(*   Spec        create_infographic, block by block, of both scripts       *)
(*   SpecColors  create_infographic with a malformed colour constant       *)
(*   SpecCrop    the crop-and-save tail of create_infographic (features)   *)
(* Strings are sequences of one-character strings.  Pillow calls are       *)
(* modelled by their effect on the set of painted pixels, Python floats    *)
(* by exact IEEE-754 double arithmetic.                                    *)
(***************************************************************************)
EXTENDS Integers, Sequences, FiniteSets, TLC

VARIABLES
    script,      \* which file runs: "features" or "yield"
    pc,          \* position of the running function
    hex_color,   \* hex_to_rgb: the argument
    rgb,         \* hex_to_rgb: the returned value, or the raised error
    coords,      \* draw_rounded_rect / draw_gradient_rect: (x1, y1, x2, y2)
    radius,      \* draw_rounded_rect / draw_gradient_rect: requested radius
    r_used,      \* draw_rounded_rect: radius used by the six draw calls
    pil_strict,  \* whether Pillow rejects inverted boxes (9.5+) or swaps them
    painted,     \* draw_rounded_rect: pixels painted on the surface
    raised,      \* the exception that ended the function, or "none"
    color_top,   \* draw_gradient_rect: top colour string
    color_bot,   \* draw_gradient_rect: bottom colour string
    overlay,     \* draw_gradient_rect: row -> colour of the RGBA buffer
    mask,        \* draw_gradient_rect: opaque pixels of the buffer
    img,         \* draw_gradient_rect: destination canvas, pixel -> value
    y,           \* create_infographic: the layout cursor (y / y_pos)
    fonts,       \* create_infographic: "truetype" or "default"
    asset,       \* create_infographic: where the logo/globe try block fails
    disk,        \* create_infographic: whether img.save can write the file
    header,      \* create_infographic: which header was drawn
    rects,       \* create_infographic: rounded/gradient rectangles drawn
    blocks,      \* create_infographic: number of layout blocks drawn
    size,        \* create_infographic: img.size, (width, height)
    cropped,     \* create_infographic: whether img.crop was called
    saved,       \* create_infographic: size of the file written
    stdout,      \* create_infographic: lines printed
    palette,     \* the colour constants of the script: name -> string
    loadable,    \* create_infographic: truetype() calls that return
    caught       \* create_infographic: exceptions a handler swallowed

vars == <<script, pc, hex_color, rgb, coords, radius, r_used, pil_strict,
          painted, raised, color_top, color_bot, overlay, mask, img,
          y, fonts, asset, disk, header, rects, blocks, size, cropped, saved,
          stdout, palette, loadable, caught>>

hexVars  == <<hex_color, rgb>>
rectVars == <<coords, radius, r_used, pil_strict, painted>>
gradVars == <<color_top, color_bot, overlay, mask, img>>
runVars  == <<y, fonts, asset, disk, header, rects, blocks, size, cropped,
             saved, stdout, palette, loadable, caught>>

Scripts == {"features", "yield"}

Min(a, b) == IF a <= b THEN a ELSE b
Max(a, b) == IF a >= b THEN a ELSE b

(***************************************************************************)
(* Idle values of the variables a specification does not use.              *)
(***************************************************************************)
NoRgb == [ok |-> FALSE, val |-> <<>>]

HexIdle ==
    /\ hex_color = <<>>
    /\ rgb = NoRgb

RectIdle ==
    /\ coords = <<0, 0, 0, 0>>
    /\ radius = 0
    /\ r_used = 0
    /\ pil_strict = FALSE
    /\ painted = {}

GradIdle ==
    /\ color_top = <<>>
    /\ color_bot = <<>>
    /\ overlay = <<>>
    /\ mask = {}
    /\ img = <<>>

RunIdle ==
    /\ y = -1
    /\ fonts = "unset"
    /\ asset = "ok"
    /\ disk = TRUE
    /\ header = "none"
    /\ rects = {}
    /\ blocks = 0
    /\ size = <<0, 0>>
    /\ cropped = FALSE
    /\ saved = <<>>
    /\ stdout = <<>>
    /\ palette = <<>>
    /\ loadable = 0
    /\ caught = {}

(***************************************************************************)
(* Colour utility: hex_to_rgb.                                             *)
(***************************************************************************)
LowerDigits == <<"0", "1", "2", "3", "4", "5", "6", "7", "8", "9",
                 "a", "b", "c", "d", "e", "f">>
UpperDigits == <<"0", "1", "2", "3", "4", "5", "6", "7", "8", "9",
                 "A", "B", "C", "D", "E", "F">>

Range(s) == {s[i] : i \in DOMAIN s}

HexDigits == Range(LowerDigits) \cup Range(UpperDigits)

\* The value of one hexadecimal digit, either case.
DigitVal(c) ==
    IF c \in Range(LowerDigits)
    THEN (CHOOSE i \in DOMAIN LowerDigits : LowerDigits[i] = c) - 1
    ELSE (CHOOSE i \in DOMAIN UpperDigits : UpperDigits[i] = c) - 1

\* str.lstrip('#'): every leading '#' is removed.
RECURSIVE lstrip(_)
lstrip(s) ==
    IF s # <<>> /\ Head(s) = "#" THEN lstrip(Tail(s)) ELSE s

\* The slice s[i:i+2] of Python, i counted from 0; shorter near the end.
Slice2(s, i) ==
    SubSeq(s, i + 1, Min(i + 2, Len(s)))

\* int(t, 16) of a slice of at most two characters: the value, or -1 for
\* the ValueError.  Python accepts an optional sign and surrounding blanks.
int16_wrong_base(t) ==
    IF Len(t) = 2 /\ t[1] \in HexDigits /\ t[2] \in HexDigits
    THEN 10 * DigitVal(t[1]) + DigitVal(t[2])
    ELSE -1

int16(t) ==
    IF Len(t) = 2 /\ t[1] \in HexDigits /\ t[2] \in HexDigits
    THEN 16 * DigitVal(t[1]) + DigitVal(t[2])
    ELSE IF Len(t) = 2 /\ t[1] \in {" ", "+"} /\ t[2] \in HexDigits
    THEN DigitVal(t[2])
    ELSE IF Len(t) = 2 /\ t[1] \in HexDigits /\ t[2] = " "
    THEN DigitVal(t[1])
    ELSE IF Len(t) = 1 /\ t[1] \in HexDigits
    THEN DigitVal(t[1])
    ELSE -1

\* tuple(int(hex_color[i:i+2], 16) for i in (0, 2, 4)) after the lstrip.
\* A slice "-d" parses to a negative number; it is no error in Python, and
\* is kept apart from the ValueError by its own marker -2 - d.
HexTuple(s) ==
    LET one(i) ==
            LET t == Slice2(s, i)
            IN  IF Len(t) = 2 /\ t[1] = "-" /\ t[2] \in HexDigits
                THEN -2 - DigitVal(t[2])
                ELSE int16(t)
        v == <<one(0), one(2), one(4)>>
    IN  IF \E k \in 1..3 : v[k] = -1
        THEN [ok |-> FALSE, val |-> <<>>]
        ELSE [ok |-> TRUE,
              val |-> [k \in 1..3 |-> IF v[k] <= -2 THEN v[k] + 2 ELSE v[k]]]

hex_to_rgb_features(s) == HexTuple(lstrip(s))

hex_to_rgb_yield(s) == HexTuple(lstrip(s))

hex_to_rgb(sc, s) ==
    IF sc = "features" THEN hex_to_rgb_features(s) ELSE hex_to_rgb_yield(s)


(***************************************************************************)
(* The colour strings of the two scripts.                                  *)
(***************************************************************************)
BACKGROUND_COLOR == <<"#", "0", "f", "1", "4", "1", "9">>
PRIMARY_COLOR    == <<"#", "0", "0", "d", "4", "a", "a">>
SECONDARY_COLOR  == <<"#", "1", "d", "a", "1", "f", "2">>
ACCENT_PURPLE    == <<"#", "9", "b", "5", "9", "b", "6">>
ACCENT_ORANGE    == <<"#", "f", "3", "9", "c", "1", "2">>
TEXT_COLOR       == <<"#", "f", "f", "f", "f", "f", "f">>
MUTED_COLOR      == <<"#", "8", "8", "9", "9", "a", "6">>
CARD_COLOR       == <<"#", "1", "9", "2", "7", "3", "4">>
CARD_HIGHLIGHT   == <<"#", "1", "e", "3", "0", "4", "4">>
HOST_GREEN       == <<"#", "2", "e", "c", "c", "7", "1">>
NFT_RED          == <<"#", "e", "7", "4", "c", "3", "c">>
CTA_BOTTOM       == <<"#", "0", "0", "9", "9", "7", "7">>

LiteralColors ==
    {BACKGROUND_COLOR, PRIMARY_COLOR, SECONDARY_COLOR, ACCENT_PURPLE,
     ACCENT_ORANGE, TEXT_COLOR, MUTED_COLOR, CARD_COLOR, CARD_HIGHLIGHT,
     HOST_GREEN, NFT_RED, CTA_BOTTOM}

(***************************************************************************)
(* SpecHex: hex_to_rgb of either script applied to one colour string.      *)
(* Every two-digit pair occurs in every position, beside sample pairs in   *)
(* the other two positions; each body is tried with and without its '#'.   *)
(* A few malformed strings are included: they raise.                       *)
(***************************************************************************)
AllPairs == {<<a, b>> : a \in HexDigits, b \in HexDigits}

SamplePairs == {<<"0", "0">>, <<"f", "F">>, <<"1", "e">>}

HexBodies ==
    {p \o q \o r : p \in AllPairs, q \in SamplePairs, r \in SamplePairs}
    \cup {q \o p \o r : p \in AllPairs, q \in SamplePairs, r \in SamplePairs}
    \cup {q \o r \o p : p \in AllPairs, q \in SamplePairs, r \in SamplePairs}
    \cup {Tail(c) : c \in LiteralColors}

Malformed ==
    {<<"#", "g", "g", "0", "0", "0", "0">>,
     <<"1", "2", "3">>,
     <<"#", "1", "2", "3", "4", "5">>,
     <<>>}

HexInputs ==
    HexBodies \cup {<<"#">> \o b : b \in HexBodies} \cup Malformed

InitHex ==
    /\ script \in Scripts
    /\ pc = "hex_call"
    /\ hex_color \in HexInputs
    /\ rgb = NoRgb
    /\ raised = "none"
    /\ RectIdle /\ GradIdle /\ RunIdle

\* One call of hex_to_rgb: it returns the triple or raises ValueError.
HexCall ==
    /\ pc = "hex_call"
    /\ rgb' = hex_to_rgb(script, hex_color)
    /\ raised' = IF rgb'.ok THEN "none" ELSE "ValueError"
    /\ pc' = IF rgb'.ok THEN "hex_return" ELSE "hex_raise"
    /\ UNCHANGED <<script, hex_color, rectVars, gradVars, runVars>>

NextHex == HexCall

SpecHex == InitHex /\ [][NextHex]_vars

\* A string of exactly six hexadecimal digits, with or without one '#'.
IsHex6(s) == Len(s) = 6 /\ \A i \in 1..6 : s[i] \in HexDigits

ValidHex(s) ==
    \/ IsHex6(s)
    \/ Len(s) = 7 /\ s[1] = "#" /\ IsHex6(Tail(s))

DigitsOf(s) == IF Len(s) = 7 THEN Tail(s) ELSE s

LowerOf(c) == LowerDigits[DigitVal(c) + 1]

\* '%02x%02x%02x' % (r, g, b)
Reformat(v) ==
    <<LowerDigits[(v[1] \div 16) + 1], LowerDigits[(v[1] % 16) + 1],
      LowerDigits[(v[2] \div 16) + 1], LowerDigits[(v[2] % 16) + 1],
      LowerDigits[(v[3] \div 16) + 1], LowerDigits[(v[3] % 16) + 1]>>

\* C1: for every string of exactly 6 hexadecimal digits, with or without a
\* leading '#', hex_to_rgb of either script returns a triple whose components
\* lie in 0..255, equal the values of the three two-digit pairs in order, and
\* reformat as two-digit hex pairs to the input digits (case-insensitively).
C1_HexRoundTrip ==
    (pc # "hex_call" /\ ValidHex(hex_color)) =>
        LET d == DigitsOf(hex_color)
        IN  /\ pc = "hex_return"
            /\ rgb.ok
            /\ Len(rgb.val) = 3
            /\ \A k \in 1..3 :
                /\ rgb.val[k] \in 0..255
                /\ rgb.val[k] = 16 * DigitVal(d[2 * k - 1]) + DigitVal(d[2 * k])
            /\ Reformat(rgb.val) = [i \in 1..6 |-> LowerOf(d[i])]

\* C1 witness: a prefixed, mixed-case colour has been converted.
C1_Witness ==
    /\ pc = "hex_return"
    /\ hex_color = <<"#", "f", "F", "1", "e", "A", "7">>
    /\ rgb.val = <<255, 30, 167>>

(***************************************************************************)
(* Pillow's ImageDraw primitives, by the pixels they paint.  A box is      *)
(* <<x0, y0, x1, y1>> with both corners included; painting is clipped to   *)
(* the surface the ImageDraw object was made for.                          *)
(***************************************************************************)
BoxMax == 5
RadiusMax == 3

\* The surface of SpecRect leaves 2 * RadiusMax pixels around every box, so
\* paint that leaves the box is seen and not clipped away.
SurfaceLo == 0 - 2 * RadiusMax
SurfaceHi == BoxMax + 2 * RadiusMax
Surface == (SurfaceLo..SurfaceHi) \X (SurfaceLo..SurfaceHi)

Inverted(b) == b[3] < b[1] \/ b[4] < b[2]

\* Pillow before 9.5 orders the corners of an inverted box itself.
Ordered(b) ==
    <<Min(b[1], b[3]), Min(b[2], b[4]), Max(b[1], b[3]), Max(b[2], b[4])>>

\* draw.rectangle(box, fill): every pixel of the box, corners included.
Rectangle(surface, b) ==
    {p \in surface : b[1] <= p[1] /\ p[1] <= b[3] /\ b[2] <= p[2] /\ p[2] <= b[4]}

\* draw.ellipse(box, fill): the pixels of the box inside the ellipse it
\* bounds, in doubled coordinates about the centre of the box.
Ellipse(surface, b) ==
    LET w == b[3] - b[1]
        h == b[4] - b[2]
    IN  {p \in Rectangle(surface, b) :
            (2 * p[1] - b[1] - b[3]) * (2 * p[1] - b[1] - b[3]) * h * h
            + (2 * p[2] - b[2] - b[4]) * (2 * p[2] - b[2] - b[4]) * w * w
            <= w * w * h * h}

Shape(surface, call) ==
    IF call.kind = "rectangle"
    THEN Rectangle(surface, Ordered(call.box))
    ELSE Ellipse(surface, Ordered(call.box))

\* The draw calls of a function, run in order: the pixels painted, and the
\* ValueError of the first inverted box when Pillow is strict, which ends
\* the function with the earlier calls' paint left on the surface.
RECURSIVE RunCalls(_, _, _, _)
RunCalls(surface, calls, strict, acc) ==
    IF calls = <<>>
    THEN [painted |-> acc, raised |-> "none"]
    ELSE IF strict /\ Inverted(Head(calls).box)
    THEN [painted |-> acc, raised |-> "ValueError"]
    ELSE RunCalls(surface, Tail(calls), strict,
                  acc \cup Shape(surface, Head(calls)))

(***************************************************************************)
(* Rounded-rectangle rasterizer: draw_rounded_rect of each script.         *)
(***************************************************************************)
\* The four circles centred on the corners of the box instead of inset.
RoundedCallsCentred(c, r) ==
    <<[kind |-> "rectangle", box |-> <<c[1] + r, c[2], c[3] - r, c[4]>>],
      [kind |-> "rectangle", box |-> <<c[1], c[2] + r, c[3], c[4] - r>>],
      [kind |-> "ellipse", box |-> <<c[1] - r, c[2] - r, c[1] + r, c[2] + r>>],
      [kind |-> "ellipse", box |-> <<c[3] - r, c[2] - r, c[3] + r, c[2] + r>>],
      [kind |-> "ellipse", box |-> <<c[1] - r, c[4] - r, c[1] + r, c[4] + r>>],
      [kind |-> "ellipse", box |-> <<c[3] - r, c[4] - r, c[3] + r, c[4] + r>>]>>

\* The two strips and the four corner circles, for the radius r in use.
RoundedCalls(c, r) ==
    LET x1 == c[1]
        y1 == c[2]
        x2 == c[3]
        y2 == c[4]
    IN  <<[kind |-> "rectangle", box |-> <<x1 + r, y1, x2 - r, y2>>],
          [kind |-> "rectangle", box |-> <<x1, y1 + r, x2, y2 - r>>],
          [kind |-> "ellipse", box |-> <<x1, y1, x1 + 2 * r, y1 + 2 * r>>],
          [kind |-> "ellipse", box |-> <<x2 - 2 * r, y1, x2, y1 + 2 * r>>],
          [kind |-> "ellipse", box |-> <<x1, y2 - 2 * r, x1 + 2 * r, y2>>],
          [kind |-> "ellipse", box |-> <<x2 - 2 * r, y2 - 2 * r, x2, y2>>]>>

\* A slip in the top-right circle: its box starts at x2 - r.
RoundedCallsSkewed(c, r) ==
    [RoundedCalls(c, r) EXCEPT ![4].box = <<c[3] - r, c[2], c[3], c[2] + 2 * r>>]

\* features: r = min(radius, (x2 - x1) // 2, (y2 - y1) // 2)
ClampedRadius(c, rad) ==
    Min(rad, Min((c[3] - c[1]) \div 2, (c[4] - c[2]) \div 2))

\* yield: the requested radius is used as it is.
UnclampedRadius(c, rad) == rad

RadiusUsed(sc, c, rad) ==
    IF sc = "features" THEN ClampedRadius(c, rad) ELSE UnclampedRadius(c, rad)

draw_rounded_rect_features_skewed(surface, c, rad, strict) ==
    RunCalls(surface, RoundedCallsSkewed(c, ClampedRadius(c, rad)), strict, {})

draw_rounded_rect_features(surface, c, rad, strict) ==
    RunCalls(surface, RoundedCalls(c, ClampedRadius(c, rad)), strict, {})

draw_rounded_rect_yield(surface, c, rad, strict) ==
    RunCalls(surface, RoundedCalls(c, UnclampedRadius(c, rad)), strict, {})

draw_rounded_rect(sc, surface, c, rad, strict) ==
    IF sc = "features"
    THEN draw_rounded_rect_features(surface, c, rad, strict)
    ELSE draw_rounded_rect_yield(surface, c, rad, strict)

(***************************************************************************)
(* SpecRect: draw_rounded_rect of either script on a blank surface, for    *)
(* every box with 0 <= x1 <= x2 <= BoxMax, 0 <= y1 <= y2 <= BoxMax and     *)
(* every radius in 0..RadiusMax, under either Pillow behaviour.            *)
(***************************************************************************)
Boxes ==
    {<<x1, y1, x2, y2>> : x1 \in 0..BoxMax, y1 \in 0..BoxMax,
                          x2 \in 0..BoxMax, y2 \in 0..BoxMax}

InitRect ==
    /\ script \in Scripts
    /\ pc = "rect_call"
    /\ coords \in {c \in Boxes : c[1] <= c[3] /\ c[2] <= c[4]}
    /\ radius \in 0..RadiusMax
    /\ pil_strict \in BOOLEAN
    /\ r_used = 0
    /\ painted = {}
    /\ raised = "none"
    /\ HexIdle /\ GradIdle /\ RunIdle

RectCall ==
    /\ pc = "rect_call"
    /\ LET res == draw_rounded_rect(script, Surface, coords, radius, pil_strict)
       IN  /\ painted' = res.painted
           /\ raised' = res.raised
           /\ pc' = IF res.raised = "none" THEN "rect_return" ELSE "rect_raise"
    /\ r_used' = RadiusUsed(script, coords, radius)
    /\ UNCHANGED <<script, coords, radius, pil_strict, hexVars, gradVars, runVars>>

NextRect == RectCall

SpecRect == InitRect /\ [][NextRect]_vars

BoxW == coords[3] - coords[1]
BoxH == coords[4] - coords[2]

InBox(p) ==
    /\ coords[1] <= p[1] /\ p[1] <= coords[3]
    /\ coords[2] <= p[2] /\ p[2] <= coords[4]

\* C2: in both scripts, for every box with x1 <= x2, y1 <= y2 and every
\* requested radius >= 0, the radius used by draw_rounded_rect is at most
\* half the smaller of the box's width and height, and no pixel outside the
\* bounding box is painted.
C2_RadiusClamped ==
    pc \in {"rect_return", "rect_raise"} =>
        /\ 2 * r_used <= Min(BoxW, BoxH)
        /\ \A p \in painted : InBox(p)

\* C2, the part of it the features script alone satisfies.
C2_FeaturesClamped ==
    (pc \in {"rect_return", "rect_raise"} /\ script = "features") =>
        /\ pc = "rect_return"
        /\ 2 * r_used <= Min(BoxW, BoxH)
        /\ \A p \in painted : InBox(p)

\* C2 witness: a radius larger than the box was requested of the features
\* script and was cut down.
C2_Witness ==
    /\ pc = "rect_return"
    /\ script = "features"
    /\ coords = <<1, 1, 5, 4>>
    /\ radius = 4
    /\ r_used = 1
    /\ painted # {}

MirrorLR(p) == <<coords[1] + coords[3] - p[1], p[2]>>
MirrorTB(p) == <<p[1], coords[2] + coords[4] - p[2]>>

\* C3: for every box of width W and height H and every radius R with
\* 2R <= min(W, H), a pixel is painted by draw_rounded_rect if and only if
\* its left-right mirror and its top-bottom mirror in the box are painted.
C3_MirrorSymmetric ==
    (pc \in {"rect_return", "rect_raise"} /\ 2 * radius <= Min(BoxW, BoxH)) =>
        /\ pc = "rect_return"
        /\ \A p \in Surface :
            /\ (p \in painted) <=> (MirrorLR(p) \in painted)
            /\ (p \in painted) <=> (MirrorTB(p) \in painted)

\* C3 witness: a rounded shape whose corner pixels are cut away.
C3_Witness ==
    /\ pc = "rect_return"
    /\ coords = <<0, 0, 5, 4>>
    /\ radius = 2
    /\ <<0, 0>> \notin painted
    /\ <<5, 4>> \notin painted
    /\ <<1, 0>> \notin painted
    /\ <<2, 0>> \in painted
    /\ <<0, 2>> \in painted

(***************************************************************************)
(* Gradient compositor: draw_gradient_rect (features script only).         *)
(***************************************************************************)
(***************************************************************************)
(* Python floats: the IEEE-754 doubles of line 53 and lines 54-56, kept    *)
(* exactly.  A non-negative double below 2^30 is held as the integer       *)
(* value * 2^75, written in NLimbs base-2^15 limbs, least significant      *)
(* first, so limb FracLimbs is the units limb.  Every operation computes   *)
(* its exact result and rounds it to 53 significant bits, to nearest,      *)
(* ties to even.                                                           *)
(***************************************************************************)
LimbBits == 15
LimbBase == 2^LimbBits
NLimbs == 7
FracLimbs == 5
Mantissa == 53

Limbs == 0..(NLimbs - 1)

FloatZero == [i \in Limbs |-> 0]

\* float(c) of an integer 0 <= c < 2^15.
FloatOf(c) == [FloatZero EXCEPT ![FracLimbs] = c]

\* Number of bits of a limb, and of a limb vector.
LimbLen(x) == Cardinality({j \in 0..(LimbBits - 1) : 2^j <= x})

BitLen(N) ==
    IF N = FloatZero
    THEN 0
    ELSE LET top == CHOOSE i \in Limbs :
                        N[i] # 0 /\ \A j \in Limbs : j > i => N[j] = 0
         IN  LimbBits * top + LimbLen(N[top])

Bit(N, j) == (N[j \div LimbBits] \div 2^(j % LimbBits)) % 2

\* Whether a bit below bit j is set.
LowBits(N, j) ==
    \E i \in Limbs :
        \/ i < j \div LimbBits /\ N[i] # 0
        \/ i = j \div LimbBits /\ N[i] % 2^(j % LimbBits) # 0

\* N with the bits below bit k cleared.
ClearLow(N, k) ==
    [i \in Limbs |->
        IF LimbBits * (i + 1) <= k THEN 0
        ELSE IF LimbBits * i >= k THEN N[i]
        ELSE N[i] - (N[i] % 2^(k - LimbBits * i))]

\* N + c * LimbBase^i, the carry taken upwards.
RECURSIVE AddAt(_, _, _)
AddAt(N, i, c) ==
    LET v == N[i] + c
    IN  IF v < LimbBase
        THEN [N EXCEPT ![i] = v]
        ELSE AddAt([N EXCEPT ![i] = v - LimbBase], i + 1, 1)

\* The exact value N (more low bits set below it when sticky) rounded to a
\* double: to 53 significant bits, to nearest, ties to even.
Round53(N, sticky) ==
    LET k == BitLen(N) - Mantissa
    IN  IF k <= 0
        THEN N
        ELSE IF /\ Bit(N, k - 1) = 1
                /\ (LowBits(N, k - 1) \/ sticky \/ Bit(N, k) = 1)
        THEN AddAt(ClearLow(N, k), k \div LimbBits, 2^(k % LimbBits))
        ELSE ClearLow(N, k)

\* Limbs i..0 of (rem * LimbBase^(i+1) + num) \div d, and the remainder.
RECURSIVE DivLimbs(_, _, _, _, _)
DivLimbs(num, d, i, rem, acc) ==
    IF i < 0
    THEN [q |-> acc, rem |-> rem]
    ELSE LET cur == rem * LimbBase + num[i]
         IN  DivLimbs(num, d, i - 1, cur % d, [acc EXCEPT ![i] = cur \div d])

\* Limbs i.. of N * n + carry.
RECURSIVE MulLimbs(_, _, _, _, _)
MulLimbs(N, n, i, carry, acc) ==
    IF i >= NLimbs
    THEN acc
    ELSE LET v == N[i] * n + carry
         IN  MulLimbs(N, n, i + 1, v \div LimbBase,
                      [acc EXCEPT ![i] = v % LimbBase])

\* Limbs i.. of A - B - borrow, for A >= B.
RECURSIVE SubLimbs(_, _, _, _, _)
SubLimbs(A, B, i, borrow, acc) ==
    IF i >= NLimbs
    THEN acc
    ELSE LET v == A[i] - B[i] - borrow
         IN  IF v < 0
             THEN SubLimbs(A, B, i + 1, 1, [acc EXCEPT ![i] = v + LimbBase])
             ELSE SubLimbs(A, B, i + 1, 0, [acc EXCEPT ![i] = v])

\* row // d turned into a float: Python 2's "/" on two ints.
FloorDiv(row, d) == FloatOf(row \div d)

\* row / d of two ints, 0 <= row <= d: the correctly rounded quotient.
TrueDiv(row, d) ==
    LET res == DivLimbs(FloatOf(row), d, NLimbs - 1, 0, FloatZero)
    IN  Round53(res.q, res.rem # 0)

\* n * x for an int n >= 0 (converted exactly) and a float x.
FloatMul(n, x) == Round53(MulLimbs(x, n, 0, 0, FloatZero), FALSE)

\* c + x and c - x for an int c and a float x, c >= x in the second.
FloatAdd(c, x) == Round53(AddAt(x, FracLimbs, c), FALSE)

FloatSub(c, x) == Round53(SubLimbs(FloatOf(c), x, 0, 0, FloatZero), FALSE)

\* int(x) of a non-negative float below 2^15.
IntOf(x) == x[FracLimbs]

\* The interpolation with the height of the box as the divisor.
LerpOverHeight(top, bot, row, h) ==
    (top * h + (bot - top) * row) \div h

\* int(ct[k] + (cb[k] - ct[k]) * t) with t = row / max(h - 1, 1), for one
\* channel (lines 53-56).  (cb - ct) * t has the sign of cb - ct and the
\* magnitude of |cb - ct| * t; the sum is never negative, so int()
\* truncates downwards.
Lerp(top, bot, row, h) ==
    LET t == TrueDiv(row, Max(h - 1, 1))
    IN  IF bot >= top
        THEN IntOf(FloatAdd(top, FloatMul(bot - top, t)))
        ELSE IntOf(FloatSub(top, FloatMul(top - bot, t)))

\* The colour of one row of the buffer.
RowColor(ct, cb, row, h) ==
    <<Lerp(ct[1], cb[1], row, h),
      Lerp(ct[2], cb[2], row, h),
      Lerp(ct[3], cb[3], row, h)>>

\* The pixels of a width x height image.
ImagePixels(width, height) == (0..(width - 1)) \X (0..(height - 1))

\* The alpha channel of the overlay: od.line makes every pixel of every row
\* opaque; with radius > 0, putalpha(mask) keeps opaque what
\* draw_rounded_rect(md, (0, 0, overlay.width, overlay.height), radius, 255)
\* painted on the mask, which is clipped to the buffer.
Opaque(width, height, rad, strict) ==
    IF rad > 0
    THEN draw_rounded_rect_features(ImagePixels(width, height),
                                    <<0, 0, width, height>>, rad, strict).painted
    ELSE ImagePixels(width, height)

\* img.paste(overlay, (x1, y1)) without the mask: the whole box is replaced.
PasteUnmasked(im, x1, y1, w, rows, opaque) ==
    [p \in DOMAIN im |->
        IF 0 <= p[1] - x1 /\ p[1] - x1 < w /\ p[2] - y1 \in DOMAIN rows
        THEN rows[p[2] - y1]
        ELSE im[p]]

\* img.paste(overlay, (x1, y1), overlay), the overlay being w pixels wide:
\* a destination pixel under an opaque overlay pixel takes its colour,
\* every other pixel is kept.
Paste(im, x1, y1, w, rows, opaque) ==
    [p \in DOMAIN im |->
        IF 0 <= p[1] - x1 /\ p[1] - x1 < w /\ p[2] - y1 \in DOMAIN rows
           /\ <<p[1] - x1, p[2] - y1>> \in opaque
        THEN rows[p[2] - y1]
        ELSE im[p]]

draw_gradient_rect(im, c, top, bot, rad, strict) ==
    LET ct == hex_to_rgb_features(top)
        cb == hex_to_rgb_features(bot)
        w == c[3] - c[1]
        h == c[4] - c[2]
    IN  IF ~(ct.ok /\ cb.ok)
        THEN [img |-> im, overlay |-> <<>>, mask |-> {}, raised |-> "ValueError"]
        ELSE LET rows == [row \in 0..(h - 1) |-> RowColor(ct.val, cb.val, row, h)]
                 opaque == Opaque(w, h, rad, strict)
             IN  [img |-> Paste(im, c[1], c[2], w, rows, opaque),
                  overlay |-> rows,
                  mask |-> opaque,
                  raised |-> "none"]

(***************************************************************************)
(* SpecGrad: draw_gradient_rect on a canvas whose pixels all differ, for   *)
(* every box of at least one row and one column inside the canvas, the     *)
(* colour pairs the script passes, and every radius in 0..RadiusMax.       *)
(***************************************************************************)
Canvas == ImagePixels(BoxMax, BoxMax)

\* The canvas before the call: every pixel has a colour of its own.
Canvas0 == [p \in Canvas |-> <<p[1], p[2], 7>>]

TopColors == {CARD_HIGHLIGHT, PRIMARY_COLOR, ACCENT_ORANGE}
BottomColors == {CARD_COLOR, CTA_BOTTOM}

InitGrad ==
    /\ script = "features"
    /\ pc = "grad_call"
    /\ coords \in {c \in Boxes : c[1] < c[3] /\ c[2] < c[4]}
    /\ radius \in 0..RadiusMax
    /\ pil_strict \in BOOLEAN
    /\ color_top \in TopColors
    /\ color_bot \in BottomColors
    /\ img = Canvas0
    /\ overlay = <<>>
    /\ mask = {}
    /\ r_used = 0
    /\ painted = {}
    /\ raised = "none"
    /\ HexIdle /\ RunIdle

GradCall ==
    /\ pc = "grad_call"
    /\ LET res == draw_gradient_rect(img, coords, color_top, color_bot,
                                     radius, pil_strict)
       IN  /\ img' = res.img
           /\ overlay' = res.overlay
           /\ mask' = res.mask
           /\ raised' = res.raised
           /\ pc' = IF res.raised = "none" THEN "grad_return" ELSE "grad_raise"
    /\ UNCHANGED <<script, coords, radius, r_used, pil_strict, painted,
                   color_top, color_bot, hexVars, runVars>>

NextGrad == GradCall

SpecGrad == InitGrad /\ [][NextGrad]_vars

TopRgb == hex_to_rgb_features(color_top).val
BottomRgb == hex_to_rgb_features(color_bot).val

\* C4 as stated: for every height h >= 1 and every pair of colours, row 0 of
\* the gradient buffer is exactly the top colour and row h - 1 is exactly the
\* bottom colour, also for h = 1.
C4_EndRowsAsStated ==
    pc = "grad_return" =>
        /\ overlay[0] = TopRgb
        /\ overlay[BoxH - 1] = BottomRgb

\* C4 as amended: row 0 is exactly the top colour for every h >= 1, and row
\* h - 1 is exactly the bottom colour for every h >= 2; for h = 1 the only
\* row is the top colour.
C4_EndRows ==
    pc = "grad_return" =>
        /\ DOMAIN overlay = 0..(BoxH - 1)
        /\ overlay[0] = TopRgb
        /\ (BoxH >= 2 => overlay[BoxH - 1] = BottomRgb)

\* C4 witness: a three-row gradient from CARD_HIGHLIGHT to CARD_COLOR.
C4_Witness ==
    /\ pc = "grad_return"
    /\ BoxH = 3
    /\ overlay[0] = <<30, 48, 68>>
    /\ overlay[1] = <<27, 43, 60>>
    /\ overlay[2] = <<25, 39, 52>>

InRegion(p) ==
    /\ coords[1] <= p[1] /\ p[1] < coords[3]
    /\ coords[2] <= p[2] /\ p[2] < coords[4]

InMask(p) == <<p[1] - coords[1], p[2] - coords[2]>> \in mask

\* C5: after draw_gradient_rect, every canvas pixel outside the box region
\* (columns x1..x2-1, rows y1..y2-1) is unchanged, every pixel of the region
\* that the mask leaves transparent is unchanged, every pixel of the opaque
\* region has the gradient colour of its row, and with radius = 0 every
\* pixel of the region is replaced.
C5_FrameEffect ==
    pc = "grad_return" =>
        /\ DOMAIN img = Canvas
        /\ mask \subseteq ImagePixels(BoxW, BoxH)
        /\ \A p \in Canvas :
            /\ ~InRegion(p) => img[p] = Canvas0[p]
            /\ (InRegion(p) /\ ~InMask(p)) => img[p] = Canvas0[p]
            /\ (InRegion(p) /\ InMask(p)) => img[p] = overlay[p[2] - coords[2]]
            /\ (InRegion(p) /\ radius = 0) => img[p] = overlay[p[2] - coords[2]]

\* C5 witness: a rounded gradient whose top-left corner pixel stays as it
\* was, beside a replaced pixel and an untouched pixel outside the box.
C5_Witness ==
    /\ pc = "grad_return"
    /\ coords = <<1, 1, 5, 5>>
    /\ radius = 2
    /\ img[<<1, 1>>] = Canvas0[<<1, 1>>]
    /\ img[<<3, 1>>] = overlay[0]
    /\ img[<<3, 4>>] = overlay[3]
    /\ img[<<0, 0>>] = Canvas0[<<0, 0>>]
    /\ overlay[0] # overlay[3]

(***************************************************************************)
(* Layout engine: create_infographic of each script.  The function is cut  *)
(* at every assignment to the cursor: block k is the code between two      *)
(* assignments, with the rounded and gradient rectangles it draws at the   *)
(* cursor value cur and the amount dy its closing "y += dy" adds.          *)
(***************************************************************************)
WIDTH == 1200
HEIGHT_FEATURES == 3200
HEIGHT_YIELD == 1600

HEIGHT(sc) == IF sc = "features" THEN HEIGHT_FEATURES ELSE HEIGHT_YIELD

\* draw_rounded_rect(draw, (x1, y1, x2, y2), r, fill)
Rounded(x1, y1, x2, y2, r) ==
    [kind |-> "rounded", x1 |-> x1, y1 |-> y1, x2 |-> x2, y2 |-> y2, r |-> r]

\* draw_gradient_rect(img, (x1, y1, x2, y2), top, bottom, radius=r)
Gradient(x1, y1, x2, y2, r) ==
    [kind |-> "gradient", x1 |-> x1, y1 |-> y1, x2 |-> x2, y2 |-> y2, r |-> r]

Text(dy) == [rects |-> {}, dy |-> dy]

\* create_features_infographic.py, lines 115-570.
FeaturesLayout(k, cur) ==
    LET cw    == (WIDTH - 80 - 5 * 12) \div 6
        ch    == 192
        dw    == (WIDTH - 100 - 24) \div 3
        dh    == 215
        hw    == (WIDTH - 110) \div 2
        bh    == 260
        lx    == 40
        rx    == lx + hw + 30
        wcw   == (WIDTH - 80 - 36) \div 4
        wch   == 150
        liq_w == (WIDTH - 100 - 24) \div 3
        liq_h == 200
        ecw   == (WIDTH - 80 - 48) \div 5
        ech   == 105
        sw2   == (WIDTH - 100 - 24) \div 3
        sh2   == 220
    IN  CASE k = 1 -> Text(48)                                   \* 116-118
          [] k = 2 -> Text(42)                                   \* 119-122
          [] k = 3 ->                                            \* 125-137
                [rects |-> {Rounded(40, cur, WIDTH - 40, cur + 78, 12)},
                 dy |-> 96 + 14]
          [] k = 4 -> Text(44)                                   \* 140-142
          [] k = 5 ->                                            \* 158-180
                [rects |->
                    {Rounded(40 + i * (cw + 12), cur,
                             40 + i * (cw + 12) + cw, cur + ch, 10) : i \in 0..5}
                    \cup
                    {Rounded(40 + i * (cw + 12), cur,
                             40 + i * (cw + 12) + cw, cur + 5, 3) : i \in 0..5},
                 dy |-> ch + 25]
          [] k = 6 -> Text(34)                                   \* 183-184
          [] k = 7 -> Text(48)                                   \* 185-187
          [] k = 8 ->                                            \* 189-229
                [rects |->
                    {Rounded(50 + i * (dw + 12), cur,
                             50 + i * (dw + 12) + dw, cur + dh, 12) : i \in 0..2},
                 dy |-> dh + 25]
          [] k = 9 -> Text(34)                                   \* 232-233
          [] k = 10 -> Text(44)                                  \* 234-236
          [] k = 11 ->                                           \* 238-282
                [rects |-> {Rounded(lx, cur, lx + hw, cur + bh, 12),
                            Rounded(rx, cur, rx + hw, cur + bh, 12)},
                 dy |-> bh + 25]
          [] k = 12 -> Text(34)                                  \* 285-286
          [] k = 13 -> Text(42)                                  \* 287-289
          [] k = 14 ->                                           \* 305-322
                [rects |->
                    {Rounded(40 + i * (wcw + 12), cur,
                             40 + i * (wcw + 12) + wcw, cur + wch, 10) : i \in 0..3},
                 dy |-> wch + 8]
          [] k = 15 -> Text(35)                                  \* 324-330
          [] k = 16 -> Text(34)                                  \* 333-334
          [] k = 17 -> Text(50)                                  \* 335-337
          [] k = 18 -> Text(10)                                  \* 340-343
          [] k = 19 -> Text(48)                                  \* 344-347
          [] k = 20 ->                                           \* 349-394
                [rects |->
                    {Gradient(50 + i * (liq_w + 12), cur,
                              50 + i * (liq_w + 12) + liq_w, cur + liq_h, 12) : i \in 0..2}
                    \cup
                    {Rounded(50 + i * (liq_w + 12), cur,
                             50 + i * (liq_w + 12) + liq_w, cur + 5, 3) : i \in 0..2},
                 dy |-> liq_h + 22]
          [] k = 21 -> Text(32)                                  \* 397-399
          [] k = 22 ->                                           \* 402-409
                [rects |-> {Rounded(60, cur, WIDTH - 60, cur + 32, 5)},
                 dy |-> 36]
          [] k \in 23..27 -> Text(25)                            \* 418-423
          [] k = 28 -> Text(4)                                   \* 424
          [] k = 29 -> Text(30)                                  \* 425-429
          [] k = 30 -> Text(32)                                  \* 432-434
          [] k = 31 ->                                           \* 448-465
                [rects |->
                    {Gradient(40 + i * (ecw + 12), cur,
                              40 + i * (ecw + 12) + ecw, cur + ech, 10) : i \in 0..4},
                 dy |-> ech + 25]
          [] k = 32 -> Text(34)                                  \* 468-469
          [] k = 33 -> Text(44)                                  \* 470-472
          [] k = 34 ->                                           \* 474-517
                [rects |->
                    {Rounded(50 + i * (sw2 + 12), cur,
                             50 + i * (sw2 + 12) + sw2, cur + sh2, 12) : i \in 0..2},
                 dy |-> sh2 + 25]
          [] k = 35 -> Text(34)                                  \* 520-521
          [] k = 36 -> Text(40)                                  \* 522-524
          [] k = 37 ->                                           \* 526-550
                [rects |-> {Rounded(60, cur, WIDTH - 60, cur + 175, 12)},
                 dy |-> 195]
          [] k = 38 ->                                           \* 553-559
                [rects |-> {Gradient(200, cur, WIDTH - 200, cur + 55, 28)},
                 dy |-> 75]
          [] k = 39 -> Text(28)                                  \* 561-565
          [] k = 40 -> Text(30)                                  \* 566-570

\* create_infographic.py, lines 75-255.
YieldLayout(k, cur) ==
    LET card_width  == (WIDTH - 140) \div 3
        card_height == 280
    IN  CASE k = 1 -> Text(60)                                   \* 76-77
          [] k = 2 -> Text(50)                                   \* 80-82
          [] k = 3 ->                                            \* 85-97
                [rects |-> {Rounded(50, cur, WIDTH - 50, cur + 80, 10)},
                 dy |-> 100]
          [] k = 4 ->                                            \* 100-161
                [rects |->
                    {Rounded(50 + (card_width + 20) * i, cur,
                             50 + (card_width + 20) * i + card_width,
                             cur + card_height, 15) : i \in 0..2},
                 dy |-> card_height + 30]
          [] k = 5 -> Text(50)                                   \* 164-165
          [] k = 6 -> Text(140)                                  \* 168-186
          [] k = 7 -> Text(40)                                   \* 189-190
          [] k = 8 ->                                            \* 193-199
                [rects |-> {Rounded(50, cur, WIDTH - 50, cur + 40, 5)},
                 dy |-> 45]
          [] k \in 9..11 -> Text(35)                             \* 208-213
          [] k = 12 -> Text(20)                                  \* 215
          [] k = 13 ->                                           \* 218-225
                [rects |-> {Rounded(50, cur, WIDTH - 50, cur + 120, 15)},
                 dy |-> 140]
          [] k = 14 -> Text(40)                                  \* 228-229
          [] k = 15 -> Text(70)                                  \* 231-244
          [] k = 16 ->                                           \* 247-250
                [rects |-> {Rounded(200, cur, WIDTH - 200, cur + 60, 30)},
                 dy |-> 80]
          [] k = 17 -> Text(30)                                  \* 253-255

\* "y = 10" typed for "y += 10" at features line 343.
FeaturesBlockReset(k, cur) ==
    IF k = 18 THEN [rects |-> {}, dy |-> 10 - cur] ELSE FeaturesLayout(k, cur)

FeaturesBlock(k, cur) == FeaturesLayout(k, cur)

\* "y_pos += 35" for "y_pos += 45" under the 40-pixel table header of the
\* yield script, line 199.
YieldBlockTight(k, cur) ==
    IF k = 8 THEN [YieldLayout(k, cur) EXCEPT !.dy = 35] ELSE YieldLayout(k, cur)

YieldBlock(k, cur) == YieldLayout(k, cur)

Block(sc, k, cur) ==
    IF sc = "features" THEN FeaturesBlock(k, cur) ELSE YieldBlock(k, cur)

\* The number of cursor assignments after the header.
NBlocks(sc) == IF sc = "features" THEN 40 ELSE 17

\* "y = 200" typed for "y = 20", "y_pos = 300" for "y_pos = 30".
FirstCursorTenfold(sc) == IF sc = "features" THEN 200 ELSE 300

\* The first value of the cursor: y = 20 (features), y_pos = 30 (yield).
FirstCursor(sc) == IF sc = "features" THEN 20 ELSE 30

\* The font variables of each script, in the order they are loaded.
FontVars(sc) ==
    IF sc = "features"
    THEN <<"f_title", "f_brand", "f_sect", "f_lg", "f_mb", "f_m", "f_n",
           "f_sb", "f_s", "f_tb", "f_t", "f_apy">>
    ELSE <<"font_large", "font_medium", "font_normal", "font_small",
           "font_tiny">>

\* The try block of the fonts (features 77-91, yield 47-52): the first n
\* truetype() calls return and bind their variables, call n + 1 raises and
\* the variables after it stay unbound (n = Len(FontVars) when none fails).
try_fonts(sc, n) ==
    [v \in Range(FontVars(sc)) |->
        IF \E i \in 1..n : FontVars(sc)[i] = v THEN "truetype" ELSE "unbound"]

\* The except branch cut after its first assignment statement: features
\* line 94 and yield lines 55-58 left out.
ReboundVarsFirstLine(sc) ==
    IF sc = "features"
    THEN {"f_title", "f_brand", "f_sect", "f_lg", "f_mb", "f_m"}
    ELSE {"font_large"}

\* The variables the except branch rebinds to the load_default() font:
\* features 93-94 (two chained assignments), yield 54-58.
ReboundVars(sc) ==
    IF sc = "features"
    THEN {"f_title", "f_brand", "f_sect", "f_lg", "f_mb", "f_m",
          "f_n", "f_sb", "f_s", "f_tb", "f_t", "f_apy"}
    ELSE {"font_large", "font_medium", "font_normal", "font_small",
          "font_tiny"}

\* The fonts after the try/except: what the try block bound when no call
\* failed, else every rebound variable holds the one default font.
load_fonts(sc, n) ==
    IF n = Len(FontVars(sc))
    THEN try_fonts(sc, n)
    ELSE [v \in Range(FontVars(sc)) |->
             IF v \in ReboundVars(sc) THEN "default" ELSE try_fonts(sc, n)[v]]

\* The logo block with its handler removed: the failure leaves the function.
logo_header_uncaught(sc, a, cur) ==
    IF a = "ok"
    THEN [header |-> IF sc = "features" THEN "globe" ELSE "logo",
          y |-> cur + (IF sc = "features" THEN 120 ELSE 140),
          raised |-> "none"]
    ELSE [header |-> "none", y |-> cur, raised |-> "OSError"]

\* The logo block.  features (99-113): the globe and the brand text are
\* composited in the try block, the except branch draws the text header,
\* and y += 120 follows either way.  yield (63-73): the try block pastes the
\* logo and adds 140; the except branch draws the text header and adds 120.
\* a is "ok", or the call of the try block that raises: "open" or "paste";
\* nothing has been composited when either raises.
logo_header(sc, a, cur) ==
    IF sc = "features"
    THEN [header |-> IF a = "ok" THEN "globe" ELSE "text",
          y |-> cur + 120,
          raised |-> "none"]
    ELSE IF a = "ok"
    THEN [header |-> "logo", y |-> cur + 140, raised |-> "none"]
    ELSE [header |-> "text", y |-> cur + 120, raised |-> "none"]

\* final_h = y + 10 (features line 573).
FinalMargin == 10

\* img.crop((0, 0, WIDTH, final_h)) whatever final_h is.
crop_always(sz, cur) ==
    [size |-> <<WIDTH, cur + FinalMargin>>, cropped |-> TRUE]

\* The crop left out: the canvas is saved as allocated.
crop_never(sz, cur) ==
    [size |-> sz, cropped |-> FALSE]

\* features 573-575: if final_h < HEIGHT: img = img.crop((0, 0, WIDTH, final_h))
crop_to_content(sz, cur) ==
    LET final_h == cur + FinalMargin
    IN  IF final_h < HEIGHT_FEATURES
        THEN [size |-> <<WIDTH, final_h>>, cropped |-> TRUE]
        ELSE [size |-> sz, cropped |-> FALSE]

\* The size line printed from the constants WIDTH and HEIGHT.
report_allocated(sc, cur) ==
    IF sc = "features"
    THEN <<[text |-> "Saved: OUTPUT_PATH"],
           [text |-> "Size: W x H", w |-> WIDTH, h |-> HEIGHT_FEATURES]>>
    ELSE <<[text |-> "Infographic saved to: OUTPUT_PATH"]>>

\* The lines printed after the save.  features 578-579; yield 263.
report(sc, cur) ==
    IF sc = "features"
    THEN <<[text |-> "Saved: OUTPUT_PATH"],
           [text |-> "Size: W x H", w |-> WIDTH, h |-> cur + FinalMargin]>>
    ELSE <<[text |-> "Infographic saved to: OUTPUT_PATH"]>>

(***************************************************************************)
(* The colour constants of each script and the places that pass them to    *)
(* hex_to_rgb.  String literals passed directly ("#e74c3c", "#2ecc71",     *)
(* "#009977", "#9b59b6") are well formed and are not listed.               *)
(***************************************************************************)
\* features 14-22, yield 13-18.
ColorNames(sc) ==
    IF sc = "features"
    THEN {"BACKGROUND_COLOR", "PRIMARY_COLOR", "SECONDARY_COLOR",
          "ACCENT_PURPLE", "ACCENT_ORANGE", "TEXT_COLOR", "MUTED_COLOR",
          "CARD_COLOR", "CARD_HIGHLIGHT"}
    ELSE {"BACKGROUND_COLOR", "PRIMARY_COLOR", "SECONDARY_COLOR",
          "TEXT_COLOR", "MUTED_COLOR", "CARD_COLOR"}

ColorLiteral(n) ==
    CASE n = "BACKGROUND_COLOR" -> BACKGROUND_COLOR
      [] n = "PRIMARY_COLOR"    -> PRIMARY_COLOR
      [] n = "SECONDARY_COLOR"  -> SECONDARY_COLOR
      [] n = "ACCENT_PURPLE"    -> ACCENT_PURPLE
      [] n = "ACCENT_ORANGE"    -> ACCENT_ORANGE
      [] n = "TEXT_COLOR"       -> TEXT_COLOR
      [] n = "MUTED_COLOR"      -> MUTED_COLOR
      [] n = "CARD_COLOR"       -> CARD_COLOR
      [] n = "CARD_HIGHLIGHT"   -> CARD_HIGHLIGHT

\* The constants as the files define them.
LiteralPalette(sc) == [n \in ColorNames(sc) |-> ColorLiteral(n)]

\* The constants each block passes to hex_to_rgb, directly, through
\* draw_hr (MUTED_COLOR, line 69) or through draw_gradient_rect (47-48).
FeaturesColors(k) ==
    CASE k \in {1, 4, 7, 10, 13, 17, 30, 33, 36} -> {"TEXT_COLOR"}
      [] k \in {2, 6, 9, 12, 15, 16, 19, 29, 32, 35, 39, 40} -> {"MUTED_COLOR"}
      [] k = 3 -> {"CARD_COLOR", "PRIMARY_COLOR", "MUTED_COLOR"}
      [] k \in {5, 14, 31} ->
            {"CARD_COLOR", "PRIMARY_COLOR", "SECONDARY_COLOR",
             "ACCENT_PURPLE", "ACCENT_ORANGE", "TEXT_COLOR"}
      [] k = 8 -> {"CARD_COLOR", "PRIMARY_COLOR", "ACCENT_PURPLE",
                   "SECONDARY_COLOR", "TEXT_COLOR"}
      [] k = 11 -> {"CARD_COLOR", "PRIMARY_COLOR", "SECONDARY_COLOR",
                    "TEXT_COLOR"}
      [] k = 18 -> {"PRIMARY_COLOR"}
      [] k = 20 -> {"CARD_HIGHLIGHT", "CARD_COLOR", "PRIMARY_COLOR",
                    "SECONDARY_COLOR", "ACCENT_PURPLE", "MUTED_COLOR",
                    "TEXT_COLOR"}
      [] k = 21 -> {"ACCENT_ORANGE"}
      [] k = 22 -> {"CARD_HIGHLIGHT", "MUTED_COLOR"}
      [] k \in 23..27 -> {"PRIMARY_COLOR", "TEXT_COLOR"}
      [] k = 28 -> {}
      [] k = 34 -> {"CARD_COLOR", "ACCENT_ORANGE", "SECONDARY_COLOR",
                    "PRIMARY_COLOR", "TEXT_COLOR"}
      [] k = 37 -> {"CARD_COLOR", "MUTED_COLOR", "TEXT_COLOR"}
      [] k = 38 -> {"PRIMARY_COLOR", "BACKGROUND_COLOR"}

YieldColors(k) ==
    CASE k \in {1, 5, 7, 14} -> {"TEXT_COLOR"}
      [] k \in {2, 17} -> {"MUTED_COLOR"}
      [] k = 3 -> {"CARD_COLOR", "PRIMARY_COLOR", "MUTED_COLOR"}
      [] k = 4 -> {"CARD_COLOR", "PRIMARY_COLOR", "SECONDARY_COLOR",
                   "MUTED_COLOR", "TEXT_COLOR"}
      [] k = 6 -> {"MUTED_COLOR", "PRIMARY_COLOR", "TEXT_COLOR"}
      [] k = 8 -> {"CARD_COLOR", "MUTED_COLOR"}
      [] k \in 9..11 -> {"PRIMARY_COLOR", "TEXT_COLOR"}
      [] k = 12 -> {}
      [] k = 13 -> {"CARD_COLOR", "PRIMARY_COLOR", "TEXT_COLOR",
                    "MUTED_COLOR"}
      [] k = 15 -> {"PRIMARY_COLOR", "MUTED_COLOR"}
      [] k = 16 -> {"PRIMARY_COLOR", "BACKGROUND_COLOR"}

BlockColors(sc, k) ==
    IF sc = "features" THEN FeaturesColors(k) ELSE YieldColors(k)

\* The constants of the logo block: inside its try block (features 108-109)
\* and inside its except branch (features 111-112, yield 72).
LogoColors(sc) ==
    [try |-> IF sc = "features" THEN {"TEXT_COLOR"} ELSE {},
     handler |-> {"PRIMARY_COLOR"}]

\* Whether hex_to_rgb raises ValueError on one of the constants in names.
ColorRaises(sc, pal, names) ==
    \E n \in names : ~hex_to_rgb(sc, pal[n]).ok

(***************************************************************************)
(* Spec: one run of create_infographic of either script.  The environment  *)
(* decides how many fonts load, whether the logo/globe asset can be opened    *)
(* and pasted, and whether the output file can be written.  The cursor is  *)
(* unbound (-1) until the fonts are loaded.  A block in which hex_to_rgb   *)
(* raises leaves the function there; the canvas is lost with the run.      *)
(***************************************************************************)
AssetOutcomes == {"ok", "open", "paste"}

Init ==
    /\ script \in Scripts
    /\ pc = "new"
    /\ palette = LiteralPalette(script)
    /\ loadable \in 0..Len(FontVars(script))
    /\ asset \in AssetOutcomes
    /\ disk \in BOOLEAN
    /\ y = -1
    /\ fonts = <<>>
    /\ caught = {}
    /\ header = "none"
    /\ rects = {}
    /\ blocks = 0
    /\ size = <<0, 0>>
    /\ cropped = FALSE
    /\ saved = <<>>
    /\ stdout = <<>>
    /\ raised = "none"
    /\ HexIdle /\ RectIdle /\ GradIdle

\* features 73, yield 43: Image.new('RGB', (WIDTH, HEIGHT),
\* hex_to_rgb(BACKGROUND_COLOR)).
NewImage ==
    /\ pc = "new"
    /\ IF ColorRaises(script, palette, {"BACKGROUND_COLOR"})
       THEN /\ raised' = "ValueError"
            /\ pc' = "error"
            /\ size' = size
       ELSE /\ raised' = raised
            /\ pc' = "fonts"
            /\ size' = <<WIDTH, HEIGHT(script)>>
    /\ UNCHANGED <<script, palette, y, fonts, loadable, caught, asset, disk,
                   header, rects, blocks, cropped, saved, stdout,
                   hexVars, rectVars, gradVars>>

\* features 77-96, yield 47-60: the fonts, then the first cursor value.
LoadFonts ==
    /\ pc = "fonts"
    /\ fonts' = load_fonts(script, loadable)
    /\ caught' = IF loadable < Len(FontVars(script))
                 THEN caught \cup {[handler |-> "fonts", exc |-> "OSError"]}
                 ELSE caught
    /\ y' = FirstCursor(script)
    /\ pc' = "logo"
    /\ UNCHANGED <<script, palette, loadable, asset, disk, header, rects,
                   blocks, size, cropped, saved, stdout, raised,
                   hexVars, rectVars, gradVars>>

\* features 99-113, yield 63-73.  In the features script the try block ends
\* with hex_to_rgb(TEXT_COLOR), evaluated after the globe is pasted: its
\* ValueError is caught like a failure of the asset and the text header is
\* drawn over the globe.  A ValueError in the except branch is not caught.
Logo ==
    /\ pc = "logo"
    /\ LET inTry == /\ asset = "ok"
                    /\ ColorRaises(script, palette, LogoColors(script).try)
           a == IF inTry THEN "color" ELSE asset
           res == logo_header(script, a, y)
           handled == a # "ok" /\ res.raised = "none"
           inHandler ==
               /\ handled
               /\ ColorRaises(script, palette, LogoColors(script).handler)
       IN  /\ header' = IF inHandler
                        THEN (IF inTry THEN "globe" ELSE "none")
                        ELSE IF inTry THEN "globe+text" ELSE res.header
           /\ y' = IF inHandler THEN y ELSE res.y
           /\ raised' = IF inHandler THEN "ValueError" ELSE res.raised
           /\ caught' = IF handled
                        THEN caught \cup
                             {[handler |-> "logo",
                               exc |-> IF inTry THEN "ValueError"
                                                ELSE "OSError"]}
                        ELSE caught
           /\ pc' = IF ~inHandler /\ res.raised = "none"
                    THEN "block" ELSE "error"
    /\ UNCHANGED <<script, palette, fonts, loadable, asset, disk, rects,
                   blocks, size, cropped, saved, stdout,
                   hexVars, rectVars, gradVars>>

\* The next block: its rectangles are drawn with their top at the cursor,
\* then the cursor is advanced.  Each rectangle is kept with the number of
\* its block, the cursor it was drawn at and the cursor after the block.
DrawBlock ==
    /\ pc = "block"
    /\ blocks < NBlocks(script)
    /\ LET k == blocks + 1
           b == Block(script, k, y)
       IN  IF ColorRaises(script, palette, BlockColors(script, k))
           THEN /\ raised' = "ValueError"
                /\ pc' = "error"
                /\ UNCHANGED <<rects, y, blocks>>
           ELSE /\ rects' = rects \cup
                      {[kind |-> q.kind, x1 |-> q.x1, y1 |-> q.y1,
                        x2 |-> q.x2, y2 |-> q.y2, r |-> q.r, block |-> k,
                        cur |-> y, after |-> y + b.dy] : q \in b.rects}
                /\ y' = y + b.dy
                /\ blocks' = k
                /\ raised' = raised
                /\ pc' = IF k = NBlocks(script) THEN "tail" ELSE "block"
    /\ UNCHANGED <<script, palette, fonts, loadable, caught, asset, disk,
                   header, size, cropped, saved, stdout,
                   hexVars, rectVars, gradVars>>

\* features 573-575: the crop to the content height.
Crop ==
    /\ pc = "tail"
    /\ script = "features"
    /\ LET res == crop_to_content(size, y)
       IN  /\ size' = res.size
           /\ cropped' = res.cropped
    /\ pc' = "save"
    /\ UNCHANGED <<script, palette, y, fonts, loadable, caught, asset, disk,
                   header, rects, blocks, saved, stdout, raised,
                   hexVars, rectVars, gradVars>>

\* yield 257-259: the disclaimer line, drawn at the cursor in MUTED_COLOR;
\* no assignment to the cursor follows it and the canvas keeps its size.
Disclaimer ==
    /\ pc = "tail"
    /\ script = "yield"
    /\ IF ColorRaises(script, palette, {"MUTED_COLOR"})
       THEN raised' = "ValueError" /\ pc' = "error"
       ELSE raised' = raised /\ pc' = "save"
    /\ UNCHANGED <<script, palette, y, fonts, loadable, caught, asset, disk,
                   header, rects, blocks, size, cropped, saved, stdout,
                   hexVars, rectVars, gradVars>>

\* The write with a handler around it that lets the run go on.
SaveCaught ==
    /\ pc = "save"
    /\ saved' = IF disk THEN size ELSE saved
    /\ raised' = "none"
    /\ pc' = "print"
    /\ UNCHANGED <<script, palette, y, fonts, loadable, caught, asset, disk,
                   header, rects, blocks, size, cropped, stdout,
                   hexVars, rectVars, gradVars>>

\* img.save(OUTPUT_PATH, "PNG", quality=95): the file is written with the
\* size of img, or the OSError of the write leaves the function uncaught.
Save ==
    /\ pc = "save"
    /\ IF disk
       THEN /\ saved' = size
            /\ raised' = "none"
            /\ pc' = "print"
       ELSE /\ saved' = saved
            /\ raised' = "OSError"
            /\ pc' = "error"
    /\ UNCHANGED <<script, palette, y, fonts, loadable, caught, asset, disk,
                   header, rects, blocks, size, cropped, stdout,
                   hexVars, rectVars, gradVars>>

\* features 578-579, yield 263-264.
Report ==
    /\ pc = "print"
    /\ stdout' = report(script, y)
    /\ pc' = "done"
    /\ UNCHANGED <<script, palette, y, fonts, loadable, caught, asset, disk,
                   header, rects, blocks, size, cropped, saved, raised,
                   hexVars, rectVars, gradVars>>

Next ==
    \/ NewImage
    \/ LoadFonts
    \/ Logo
    \/ DrawBlock
    \/ Crop
    \/ Disclaimer
    \/ Save
    \/ Report

Spec == Init /\ [][Next]_vars

\* The script is one thread that runs to its end: a step that can be taken
\* is taken.
FairSpec == Spec /\ WF_vars(Next)

(***************************************************************************)
(* SpecColors: the same run when the colour constants are the literal ones *)
(* or one of them has been replaced by a malformed string.                 *)
(***************************************************************************)
\* Two of the malformed strings: on the first hex_to_rgb raises, on the
\* second (five digits) it returns (18, 52, 5).
PaletteFaults ==
    {<<"#", "g", "g", "0", "0", "0", "0">>, <<"#", "1", "2", "3", "4", "5">>}

Palettes(sc) ==
    {LiteralPalette(sc)} \cup
    {[LiteralPalette(sc) EXCEPT ![n] = m] :
        n \in ColorNames(sc), m \in PaletteFaults}

InitColors ==
    /\ script \in Scripts
    /\ pc = "new"
    /\ palette \in Palettes(script)
    /\ loadable \in {0, Len(FontVars(script))}
    /\ asset \in AssetOutcomes
    /\ disk \in BOOLEAN
    /\ y = -1
    /\ fonts = <<>>
    /\ caught = {}
    /\ header = "none"
    /\ rects = {}
    /\ blocks = 0
    /\ size = <<0, 0>>
    /\ cropped = FALSE
    /\ saved = <<>>
    /\ stdout = <<>>
    /\ raised = "none"
    /\ HexIdle /\ RectIdle /\ GradIdle

NextColors == Next

SpecColors == InitColors /\ [][NextColors]_vars

FairSpecColors == SpecColors /\ WF_vars(NextColors)

(***************************************************************************)
(* SpecCrop: the tail of the features script (crop, save, report) for      *)
(* every final cursor within CropSpan of the canvas height, as layouts of  *)
(* other lengths would leave it.                                           *)
(***************************************************************************)
CropSpan == 30

InitCrop ==
    /\ script = "features"
    /\ pc = "tail"
    /\ asset = "ok"
    /\ disk \in BOOLEAN
    /\ y \in (HEIGHT_FEATURES - FinalMargin - CropSpan)
                ..(HEIGHT_FEATURES - FinalMargin + CropSpan)
    /\ fonts = load_fonts("features", Len(FontVars("features")))
    /\ loadable = Len(FontVars("features"))
    /\ caught = {}
    /\ palette = LiteralPalette("features")
    /\ header = "globe"
    /\ rects = {}
    /\ blocks = NBlocks("features")
    /\ size = <<WIDTH, HEIGHT_FEATURES>>
    /\ cropped = FALSE
    /\ saved = <<>>
    /\ stdout = <<>>
    /\ raised = "none"
    /\ HexIdle /\ RectIdle /\ GradIdle

NextCrop ==
    \/ Crop
    \/ Save
    \/ Report

SpecCrop == InitCrop /\ [][NextCrop]_vars

(***************************************************************************)
(* Properties of the layout run.                                           *)
(***************************************************************************)
AllDefault == \A v \in DOMAIN fonts : fonts[v] = "default"

BottomRow(q) == IF q.kind = "rounded" THEN q.y2 ELSE q.y2 - 1

\* C7: in both scripts every rounded or gradient rectangle has its top edge
\* at the cursor value of its block, the cursor is then advanced by at least
\* the rectangle's height plus a positive gap, and the bottom row of each
\* rectangle is strictly above the top row of every rectangle of a later
\* block.
C7_NoVerticalOverlap ==
    \A q \in rects :
        /\ q.y1 = q.cur
        /\ q.after >= q.cur + (q.y2 - q.y1) + 1
        /\ y >= q.after
        /\ \A t \in rects : t.block > q.block => BottomRow(q) < t.y1

\* C7 witness: the features script has drawn its 39 rectangles, gradient
\* cards among them.
C7_Witness ==
    /\ script = "features"
    /\ pc = "done"
    /\ Cardinality(rects) = 39
    /\ Cardinality({q \in rects : q.kind = "gradient"}) = 9
    /\ \E q \in rects : q.block = 38 /\ q.y1 = 2900 /\ q.y2 = 2955

\* The cursor after the blocks k.. of a script, from the cursor cur.
RECURSIVE CursorAfter(_, _, _)
CursorAfter(sc, k, cur) ==
    IF k > NBlocks(sc)
    THEN cur
    ELSE CursorAfter(sc, k + 1, cur + Block(sc, k, cur).dy)

\* The margin between the final cursor and the saved height: 10 in the
\* features script; for the yield script, what a run with its logo leaves.
MarginOf(sc) ==
    IF sc = "features"
    THEN FinalMargin
    ELSE HEIGHT_YIELD
         - CursorAfter("yield", 1, logo_header("yield", "ok", FirstCursor("yield")).y)

C9_CropRule ==
    pc \in {"save", "print", "done", "error"} =>
        LET final_h == y + 10
        IN  /\ (cropped <=> (final_h < HEIGHT_FEATURES))
            /\ (cropped => size = <<WIDTH, final_h>>)
            /\ (~cropped => size = <<WIDTH, HEIGHT_FEATURES>>)
            /\ (saved # <<>> => saved = <<WIDTH, Min(final_h, HEIGHT_FEATURES)>>)

\* C9 witness: a layout that ran past the canvas was saved at the allocated
\* size.
C9_Witness ==
    /\ pc = "done"
    /\ y + 10 > HEIGHT_FEATURES
    /\ ~cropped
    /\ saved = <<1200, 3200>>

\* C10: in both scripts, when opening or pasting the logo/globe fails, the
\* failure is swallowed, the text header is drawn, the cursor is advanced by
\* 120, every later block is drawn and the run reaches the save step; after
\* a successful write the success message is printed.
C10_LogoFallback ==
    /\ [][(pc = "logo" /\ asset # "ok") =>
            /\ pc' = "block"
            /\ raised' = "none"
            /\ header' = "text"
            /\ y' = y + 120]_vars
    /\ [](asset # "ok" => (raised = "none" \/ (pc = "error" /\ ~disk)))
    /\ (pc = "logo" /\ asset # "ok") ~> (pc = "save" /\ header = "text"
                                            /\ blocks = NBlocks(script))
    /\ (asset # "ok" /\ pc = "save" /\ disk) ~> (pc = "done" /\ stdout # <<>>)

\* C10 witness: a run whose asset could not be pasted has printed its
\* message under the text header.
C10_Witness ==
    /\ pc = "done"
    /\ asset = "paste"
    /\ header = "text"
    /\ blocks = NBlocks(script)
    /\ saved # <<>>
    /\ stdout # <<>>

(***************************************************************************)
(* Font fallback.                                                          *)
(***************************************************************************)
AllTrueType == \A v \in DOMAIN fonts : fonts[v] = "truetype"

\* C11: after the font-loading step every font variable of the script is
\* bound, and either every one holds its TrueType font or, when a
\* truetype() call failed (also after earlier calls had returned), every
\* one holds the default font; the step never raises and always hands over
\* to the logo block.
C11_FontsAllOrNothing ==
    /\ [](pc \notin {"new", "fonts"} =>
            /\ DOMAIN fonts = Range(FontVars(script))
            /\ (AllTrueType \/ AllDefault)
            /\ (loadable = Len(FontVars(script)) => AllTrueType)
            /\ (loadable < Len(FontVars(script)) => AllDefault))
    /\ [][pc = "fonts" => pc' = "logo" /\ raised' = "none"]_vars

\* A run that finished after the sixth truetype() call of the features
\* script failed: five fonts had loaded, all twelve variables hold the
\* default font.
C11_Witness ==
    /\ script = "features"
    /\ pc = "done"
    /\ loadable = 5
    /\ AllDefault
    /\ DOMAIN fonts = Range(FontVars("features"))
    /\ [handler |-> "fonts", exc |-> "OSError"] \in caught

(***************************************************************************)
(* Process output.                                                         *)
(***************************************************************************)
PathLine(sc) ==
    IF sc = "features"
    THEN [text |-> "Saved: OUTPUT_PATH"]
    ELSE [text |-> "Infographic saved to: OUTPUT_PATH"]

\* C12 as stated: a finished run of either script has printed the saved
\* path and a line with the dimensions, equal to those of the saved image.
C12_PrintsAsStated ==
    pc = "done" =>
        /\ Len(stdout) = 2
        /\ stdout[1] = PathLine(script)
        /\ stdout[2].w = saved[1]
        /\ stdout[2].h = saved[2]

\* C12: nothing is printed before the save has returned; a finished run
\* has printed the saved path first; the features script has printed one
\* more line, with the width and the height of the image it saved; the
\* yield script has printed the path only.
C12_Prints ==
    /\ (pc # "done" => stdout = <<>>)
    /\ (pc = "done" =>
          /\ saved # <<>>
          /\ stdout[1] = PathLine(script)
          /\ (script = "features" =>
                /\ Len(stdout) = 2
                /\ stdout[2].w = saved[1]
                /\ stdout[2].h = saved[2])
          /\ (script = "yield" => Len(stdout) = 1))

\* A finished features run: "Size: 1200 x 3043" printed, 1200 x 3043 saved.
C12_Witness ==
    /\ script = "features"
    /\ pc = "done"
    /\ saved = <<1200, 3043>>
    /\ stdout[2] = [text |-> "Size: W x H", w |-> 1200, h |-> 3043]

(***************************************************************************)
(* Failures no handler is written for.                                     *)
(***************************************************************************)
\* hex_to_rgb raises ValueError on one of the colour constants.
PaletteRaises ==
    \E n \in DOMAIN palette : ~hex_to_rgb(script, palette[n]).ok

\* C13 as stated: no handler catches the ValueError of hex_to_rgb, a run
\* with a malformed colour constant does not get to the save, and nothing
\* has been printed in an error state.
C13_PropagatesAsStated ==
    /\ \A c \in caught : c.exc # "ValueError"
    /\ (palette # LiteralPalette(script) =>
          pc \notin {"save", "print", "done"})
    /\ (pc = "error" => stdout = <<>>)

\* C13: every run ends, finished or in the error state.  A run in the
\* error state has saved and printed nothing, and was ended either by the
\* ValueError of hex_to_rgb on a colour constant or, when no constant
\* raises, by the OSError of a write that failed; a finished run had
\* neither.  So a run with a constant on which hex_to_rgb raises never
\* gets to the save and a failed write is never followed by a message,
\* while a constant that is malformed but on which hex_to_rgb does not
\* raise is no failure.  The only handler that ever swallows a ValueError
\* is the logo handler of the features script, for hex_to_rgb(TEXT_COLOR)
\* at the end of its try block; the run then ends at the next use of the
\* constant.
C13_Propagates ==
    /\ <>(pc \in {"done", "error"})
    /\ [](pc = "error" =>
            /\ stdout = <<>>
            /\ saved = <<>>
            /\ (PaletteRaises => raised = "ValueError")
            /\ (~PaletteRaises => raised = "OSError" /\ ~disk))
    /\ [](pc = "done" => ~PaletteRaises /\ disk /\ raised = "none")
    /\ [](PaletteRaises => pc \notin {"save", "print", "done"})
    /\ [](\A c \in caught :
            c.exc = "ValueError" =>
                /\ script = "features"
                /\ c.handler = "logo"
                /\ asset = "ok"
                /\ ~hex_to_rgb(script, palette["TEXT_COLOR"]).ok)

\* The features script with TEXT_COLOR = "#gg0000" and a globe that loads:
\* the ValueError of line 109 was swallowed by the logo handler, the text
\* header was drawn over the globe, and the run ended at line 117.
C13_Witness ==
    /\ script = "features"
    /\ palette["TEXT_COLOR"] = <<"#", "g", "g", "0", "0", "0", "0">>
    /\ pc = "error"
    /\ raised = "ValueError"
    /\ [handler |-> "logo", exc |-> "ValueError"] \in caught
    /\ header = "globe+text"
    /\ blocks = 0
    /\ stdout = <<>>

(***************************************************************************)
(* SpecLerp: draw_gradient_rect without a radius on a canvas one pixel     *)
(* wide, for every height up to LerpMaxH and every pair of LerpColors.     *)
(***************************************************************************)
LerpMaxH == 12

LerpColors ==
    {<<"#", "0", "0", "0", "0", "0", "0">>,
     <<"#", "5", "a", "a", "a", "b", "4">>,
     TEXT_COLOR, PRIMARY_COLOR, CARD_HIGHLIGHT, CARD_COLOR}

LerpCanvas0 == [p \in ImagePixels(1, LerpMaxH) |-> <<p[1], p[2], 7>>]

InitLerp ==
    /\ script = "features"
    /\ pc = "grad_call"
    /\ coords \in {<<0, 0, 1, h>> : h \in 1..LerpMaxH}
    /\ radius = 0
    /\ pil_strict = FALSE
    /\ color_top \in LerpColors
    /\ color_bot \in LerpColors
    /\ img = LerpCanvas0
    /\ overlay = <<>>
    /\ mask = {}
    /\ r_used = 0
    /\ painted = {}
    /\ raised = "none"
    /\ HexIdle /\ RunIdle

NextLerp == GradCall

SpecLerp == InitLerp /\ [][NextLerp]_vars

\* top + (bottom - top) * i / max(h - 1, 1) in exact arithmetic: whether it
\* is an integer, and its truncation.
ExactIsInt(top, bot, i, h) == ((bot - top) * i) % Max(h - 1, 1) = 0

ExactTrunc(top, bot, i, h) ==
    (top * Max(h - 1, 1) + (bot - top) * i) \div Max(h - 1, 1)

\* Monotone and bounded, for channel k of the buffer.
MonotoneBounded(k) ==
    LET top == TopRgb[k]
        bot == BottomRgb[k]
    IN  /\ \A i \in 0..(BoxH - 1) :
              /\ overlay[i][k] \in 0..255
              /\ Min(top, bot) <= overlay[i][k]
              /\ overlay[i][k] <= Max(top, bot)
        /\ \A i \in 0..(BoxH - 2) :
              /\ (top <= bot => overlay[i][k] <= overlay[i + 1][k])
              /\ (top >= bot => overlay[i][k] >= overlay[i + 1][k])

\* C14 as stated: every channel is monotone and bounded, and the value of
\* row i is the truncation of top + (bottom - top) * i / max(h - 1, 1).
C14_InterpolationAsStated ==
    pc = "grad_return" =>
        \A k \in 1..3 :
            /\ MonotoneBounded(k)
            /\ \A i \in 0..(BoxH - 1) :
                  overlay[i][k] = ExactTrunc(TopRgb[k], BottomRgb[k], i, BoxH)

\* C14: for every height h >= 1, every pair of colours and every channel,
\* the values are monotone from the top value to the bottom value and lie
\* between them, hence in 0..255; the value of row i is the truncation of
\* top + (bottom - top) * i / max(h - 1, 1), or one less than it where that
\* exact value is an integer the double-precision sum falls short of.
C14_Interpolation ==
    pc = "grad_return" =>
        \A k \in 1..3 :
            /\ MonotoneBounded(k)
            /\ \A i \in 0..(BoxH - 1) :
                  LET top == TopRgb[k]
                      bot == BottomRgb[k]
                  IN  \/ overlay[i][k] = ExactTrunc(top, bot, i, BoxH)
                      \/ /\ ExactIsInt(top, bot, i, BoxH)
                         /\ overlay[i][k] = ExactTrunc(top, bot, i, BoxH) - 1

\* Eleven rows from #000000 to #5aaab4: row 7 is (62, 118, 125), one less
\* in each channel than 0.7 * (90, 170, 180) = (63, 119, 126).
C14_Witness ==
    /\ pc = "grad_return"
    /\ BoxH = 11
    /\ TopRgb = <<0, 0, 0>>
    /\ BottomRgb = <<90, 170, 180>>
    /\ overlay[7] = <<62, 118, 125>>
    /\ overlay[6] = <<54, 102, 108>>
    /\ overlay[10] = <<90, 170, 180>>

(***************************************************************************)
(* The alpha mask of the gradient.                                         *)
(***************************************************************************)
\* C15: for radius > 0 the opaque pixels of the W x H buffer are invariant
\* under left-right and top-bottom mirroring of the buffer: (c, r) is
\* opaque iff (W - 1 - c, r) is opaque iff (c, H - 1 - r) is opaque.
C15_MaskMirrored ==
    (pc = "grad_return" /\ radius > 0) =>
        \A p \in ImagePixels(BoxW, BoxH) :
            /\ (p \in mask) <=> (<<BoxW - 1 - p[1], p[2]>> \in mask)
            /\ (p \in mask) <=> (<<p[1], BoxH - 1 - p[2]>> \in mask)

\* The mask of a 4 x 4 buffer with radius 2: the corner (3, 3) is opaque,
\* the other three corners are transparent.
C15_Lopsided ==
    /\ pc = "grad_return"
    /\ coords = <<0, 0, 4, 4>>
    /\ radius = 2
    /\ <<3, 3>> \in mask
    /\ <<0, 0>> \notin mask
    /\ <<3, 0>> \notin mask
    /\ <<0, 3>> \notin mask

(***************************************************************************)
(* Full corner circles against quarter circles.                            *)
(***************************************************************************)
\* The true rounded rectangle of box c with radius r: the two strips and,
\* in each r x r corner square, the quarter disk about that corner's arc
\* centre.
TrueRounded(c, r) ==
    LET x1 == c[1]
        y1 == c[2]
        x2 == c[3]
        y2 == c[4]
        Quarter(p, cx, cy, lox, hix, loy, hiy) ==
            /\ lox <= p[1] /\ p[1] <= hix
            /\ loy <= p[2] /\ p[2] <= hiy
            /\ (p[1] - cx) * (p[1] - cx) + (p[2] - cy) * (p[2] - cy) <= r * r
    IN  {p \in Rectangle(Surface, c) :
            \/ x1 + r <= p[1] /\ p[1] <= x2 - r
            \/ y1 + r <= p[2] /\ p[2] <= y2 - r
            \/ Quarter(p, x1 + r, y1 + r, x1, x1 + r, y1, y1 + r)
            \/ Quarter(p, x2 - r, y1 + r, x2 - r, x2, y1, y1 + r)
            \/ Quarter(p, x1 + r, y2 - r, x1, x1 + r, y2 - r, y2)
            \/ Quarter(p, x2 - r, y2 - r, x2 - r, x2, y2 - r, y2)}

\* The pixels of the four full disks drawn with the radius in use.
FullDisks ==
    UNION {Shape(Surface, RoundedCalls(coords, r_used)[i]) : i \in 3..6}

\* C16: whenever the radius in use is at most half of the shorter side of
\* the box, the pixels painted by draw_rounded_rect are those of the true
\* rounded rectangle, and no pixel of a full corner disk lies outside the
\* box or outside the true rounded rectangle.
C16_FullDisksAddNothing ==
    (pc = "rect_return" /\ 2 * r_used <= Min(BoxW, BoxH)) =>
        /\ painted = TrueRounded(coords, r_used)
        /\ FullDisks \subseteq Rectangle(Surface, coords)
        /\ FullDisks \subseteq TrueRounded(coords, r_used)

\* A 5 x 4 box drawn by the features script with radius 2, half of its
\* shorter side: the disks of the left and right corners overlap the middle
\* and the corner pixels stay unpainted.
C16_Witness ==
    /\ script = "features"
    /\ pc = "rect_return"
    /\ coords = <<0, 0, 5, 4>>
    /\ radius = 3
    /\ r_used = 2
    /\ <<2, 2>> \in FullDisks
    /\ <<3, 2>> \in FullDisks
    /\ <<0, 0>> \notin painted
    /\ <<5, 0>> \notin painted
    /\ painted = TrueRounded(coords, 2)

(***************************************************************************)
(* The canvas against the literal content.                                 *)
(***************************************************************************)
\* C17: on every path of both scripts every rectangle is drawn with its
\* top at the cursor and its bottom edge at most the allocated canvas
\* height (3200 features, 1600 yield), the cursor never passes the canvas
\* height, final_h = y + 10 of the features script is below 3200, so its
\* crop is taken in every run that gets to the save, and no saved image is
\* taller than the canvas that was allocated.
C17_NoOverflow ==
    /\ \A q \in rects :
          /\ q.y1 = q.cur
          /\ q.y2 > q.y1
          /\ q.y2 <= HEIGHT(script)
          /\ q.after <= HEIGHT(script)
    /\ y <= HEIGHT(script)
    /\ ((script = "features" /\ pc = "tail") =>
            y + FinalMargin < HEIGHT_FEATURES)
    /\ ((script = "features" /\ pc \in {"save", "print", "done", "error"}) =>
            /\ cropped
            /\ size = <<WIDTH, y + FinalMargin>>)
    /\ (saved # <<>> => saved[2] <= HEIGHT(script))

\* A finished run of the features script: its last rectangle (the
\* call-to-action button, block 38) ends at row 2955 of 3200 and the image
\* is cropped to 3043 rows.
C17_Witness ==
    /\ script = "features"
    /\ pc = "done"
    /\ cropped
    /\ y = 3033
    /\ saved = <<WIDTH, 3043>>
    /\ \E q \in rects : q.block = 38 /\ q.y2 = 2955 /\ q.after = 2975

=============================================================================
